---- MODULE Spec2Model ----
(***************************************************************************)
(* Model of the portable backend of the event-object crate                *)
(* (src/generic.rs): the Event state machine (wait, wait_until, notify,   *)
(* unnotify) and the group-wait engine (wait_for_any / wait_for_all and   *)
(* their timed variants).                                                  *)
(*                                                                         *)
(* Every lock acquisition that can block is a step of its own.  A lock    *)
(* that is taken, used and dropped without any blocking call in between   *)
(* (the registration table's write lock, the waiter's counter lock inside *)
(* notify, the state lock inside unnotify) is one atomic step.            *)
(* parking_lot condition variables have no spurious wakeups: a blocked    *)
(* thread becomes runnable only by notify_all or by its deadline.         *)
(***************************************************************************)
EXTENDS Integers, Sequences, FiniteSets, TLC

(***************************************************************************)
(* Bounds of the model.                                                    *)
(***************************************************************************)
NumEvents == 3
MaxNotify == 3
MaxWaits == 2

(* std::usize::MAX, the "none" sentinel of an any-mode counter.  The      *)
(* model uses the largest integer TLC represents; no slot id reaches it.  *)
USIZE_MAX == 2147483647

Events == 1..NumEvents

(* Thread names.  "g*" run group waits, "s*" single-event waits, "n*"     *)
(* notify, "u*" unnotify; which of them take part is fixed by Init.       *)
Threads == {"g1", "g2", "s1", "s2", "n1", "n2", "n3", "n4", "u1"}

NoThread == "none"

VARIABLES
    signaled,     \* Event.mutex: Mutex<bool>, the flag, per event
    autoReset,    \* Event.auto_reset, per event
    evLock,       \* owner of Event.mutex, per event
    mapReaders,   \* threads holding Event.map.read(), per event
    map,          \* Event.map: OrderMap<MutexKey, CondvarWithId>, per event
    role,         \* the function each thread calls
    timed,        \* with_timeout of a group wait
    target,       \* the event of a single-event call
    slice,        \* the slice of a group wait
    quota,        \* how many calls the thread makes
    calls,        \* calls completed
    pc,           \* position inside the current call
    idx,          \* loop index of the call (1-based position)
    rm,           \* index of the removal loop of the early return
    counter,      \* the waiter's Mutex<usize>
    wLock,        \* owner of the waiter's Mutex<usize>
    timedOut,     \* result.timed_out() of the last condvar wait
    ret,          \* value returned by the last completed call
    everSignaled, \* history: events whose flag has ever been set
    everBlocked   \* history: the thread has blocked on a condvar

vars == <<signaled, autoReset, evLock, mapReaders, map, role, timed, target,
          slice, quota, calls, pc, idx, rm, counter, wLock, timedOut, ret,
          everSignaled, everBlocked>>

config == <<autoReset, role, timed, target, slice, quota>>

(***************************************************************************)
(* OrderMap: an insertion-ordered map, here a sequence of entries          *)
(* [key, id, kind].  key is the address of the waiter's mutex, which is   *)
(* the waiter's thread; the condvar pointer names the same waiter.        *)
(***************************************************************************)
Entry(w, id, kind) == [key |-> w, id |-> id, kind |-> kind]

Keys(m) == {m[i].key : i \in 1..Len(m)}

PosOf(m, k) == CHOOSE i \in 1..Len(m) : m[i].key = k

(* A registration that inserts nothing.                                   *)
MapInsertDrops(m, e) == m

(* OrderMap::insert: replaces the value of an existing key in place,      *)
(* otherwise appends.                                                      *)
MapInsert(m, e) ==
    IF e.key \in Keys(m)
    THEN [m EXCEPT ![PosOf(m, e.key)] = e]
    ELSE Append(m, e)

(* A deregistration that forgets the removal.                             *)
MapRemoveKeeps(m, k) == m

(* OrderMap::remove is swap_remove: the last entry takes the place of     *)
(* the removed one.  Removing an absent key is a no-op.                   *)
MapRemove(m, k) ==
    IF k \notin Keys(m)
    THEN m
    ELSE LET p == PosOf(m, k)
             n == Len(m)
         IN  IF p = n
             THEN SubSeq(m, 1, n - 1)
             ELSE [i \in 1..(n - 1) |-> IF i = p THEN m[n] ELSE m[i]]

(***************************************************************************)
(* Roles.                                                                  *)
(***************************************************************************)
IsGroup(t) == role[t] \in {"any", "all"}
IsSingle(t) == role[t] \in {"wait", "wait_until"}

(* A call is over: the thread starts its next call or is done.            *)
NextPc(t) == IF calls[t] + 1 >= quota[t] THEN "done" ELSE "start"

(* A notify that sets the flag but wakes nobody.                          *)
WakeNobody(e) == pc

(* Condvar::notify_all of Event.condvar: every thread blocked in wait or  *)
(* wait_until of event e becomes runnable (it still has to retake the     *)
(* state lock).                                                            *)
WakeLocal(e) ==
    [t \in Threads |->
        IF IsSingle(t) /\ target[t] = e /\ pc[t] = "blocked"
        THEN "woken" ELSE pc[t]]

(* Condvar::notify_all of a waiter's private condvar.                     *)
WakeWaiter(p, w) ==
    [p EXCEPT ![w] = IF p[w] = "blocked" THEN "woken" ELSE p[w]]

(* A notify that stores slot id + 1 for an Any waiter.                    *)
NotifyCounterOneBased(old, entry) ==
    IF entry.kind = "Any" THEN entry.id + 1 ELSE old + entry.id

(* The value notify stores in a registered waiter's counter.              *)
NotifyCounter(old, entry) ==
    IF entry.kind = "Any" THEN entry.id ELSE old + entry.id

(* from_all of wait_for_all_until_impl.                                   *)
FromAll(n) == (n * (n + 1)) \div 2

(***************************************************************************)
(* Event::notify                                                           *)
(***************************************************************************)
(* lines 111-113: take the state lock, set the flag, wake local waiters   *)
NotifyLock(t) ==
    /\ role[t] = "notify" /\ pc[t] = "start"
    /\ LET e == target[t] IN
        /\ evLock[e] = NoThread
        /\ evLock' = [evLock EXCEPT ![e] = t]
        /\ signaled' = [signaled EXCEPT ![e] = TRUE]
        /\ everSignaled' = everSignaled \cup {e}
        /\ pc' = [WakeLocal(e) EXCEPT ![t] = "read"]
    /\ UNCHANGED <<config, mapReaders, map, calls, idx, rm, counter, wLock,
                   timedOut, ret, everBlocked>>

(* line 114: take the registration table's read lock (no writer holds it  *)
(* across a step)                                                          *)
NotifyRead(t) ==
    /\ role[t] = "notify" /\ pc[t] = "read"
    /\ mapReaders' = [mapReaders EXCEPT ![target[t]] = @ \cup {t}]
    /\ pc' = [pc EXCEPT ![t] = "walk"]
    /\ idx' = [idx EXCEPT ![t] = 1]
    /\ UNCHANGED <<config, signaled, evLock, map, calls, rm, counter, wLock,
                   timedOut, ret, everSignaled, everBlocked>>

(* lines 116-125: one iteration of the walk: lock the waiter's counter,   *)
(* store the new value, notify_all its condvar, unlock                     *)
NotifyWalk(t) ==
    /\ role[t] = "notify" /\ pc[t] = "walk"
    /\ idx[t] <= Len(map[target[t]])
    /\ LET entry == map[target[t]][idx[t]]
           w == entry.key
       IN  /\ wLock[w] = NoThread
           /\ counter' = [counter EXCEPT ![w] = NotifyCounter(@, entry)]
           /\ pc' = WakeWaiter(pc, w)
    /\ idx' = [idx EXCEPT ![t] = @ + 1]
    /\ UNCHANGED <<config, signaled, evLock, mapReaders, map, calls, rm,
                   wLock, timedOut, ret, everSignaled, everBlocked>>

(* lines 126-127: the walk is over; the read lock and the state lock are  *)
(* dropped                                                                 *)
NotifyReturn(t) ==
    /\ role[t] = "notify" /\ pc[t] = "walk"
    /\ idx[t] > Len(map[target[t]])
    /\ mapReaders' = [mapReaders EXCEPT ![target[t]] = @ \ {t}]
    /\ evLock' = [evLock EXCEPT ![target[t]] = NoThread]
    /\ calls' = [calls EXCEPT ![t] = @ + 1]
    /\ pc' = [pc EXCEPT ![t] = NextPc(t)]
    /\ UNCHANGED <<config, signaled, map, idx, rm, counter, wLock, timedOut,
                   ret, everSignaled, everBlocked>>

(***************************************************************************)
(* Event::unnotify, lines 129-132                                          *)
(***************************************************************************)
Unnotify(t) ==
    /\ role[t] = "unnotify" /\ pc[t] = "start"
    /\ evLock[target[t]] = NoThread
    /\ signaled' = [signaled EXCEPT ![target[t]] = FALSE]
    /\ calls' = [calls EXCEPT ![t] = @ + 1]
    /\ pc' = [pc EXCEPT ![t] = NextPc(t)]
    /\ UNCHANGED <<config, evLock, mapReaders, map, idx, rm, counter, wLock,
                   timedOut, ret, everSignaled, everBlocked>>

(***************************************************************************)
(* Event::wait (lines 73-82) and Event::wait_until (lines 93-108)          *)
(***************************************************************************)
(* A wait that never clears the flag.                                     *)
AfterObserveKeeps(e, flag) == flag

(* A wait that clears the flag of every event.                            *)
AfterObserveClears(e, flag) == FALSE

(* The flag after a wait has observed the event: cleared by auto-reset.   *)
AfterObserve(e, flag) == IF autoReset[e] THEN FALSE ELSE flag

(* The assertion after the condvar wait: line 77 for wait, line 102 for   *)
(* wait_until.                                                             *)
WakeAssert(t, flag) ==
    IF role[t] = "wait" THEN flag ELSE (flag \/ timedOut[t])

(* lines 74-76 / 97-100: take the state lock and test the flag; a set     *)
(* flag ends the call, a clear flag blocks on the condvar, which releases *)
(* the lock                                                                *)
WaitLock(t) ==
    /\ IsSingle(t) /\ pc[t] = "start"
    /\ evLock[target[t]] = NoThread
    /\ IF signaled[target[t]]
       THEN /\ signaled' = [signaled EXCEPT
                               ![target[t]] = AfterObserve(target[t], @)]
            /\ calls' = [calls EXCEPT ![t] = @ + 1]
            /\ pc' = [pc EXCEPT ![t] = NextPc(t)]
            /\ ret' = [ret EXCEPT ![t] = <<>>]
            /\ UNCHANGED everBlocked
       ELSE /\ pc' = [pc EXCEPT ![t] = "blocked"]
            /\ everBlocked' = [everBlocked EXCEPT ![t] = TRUE]
            /\ UNCHANGED <<signaled, calls, ret>>
    /\ timedOut' = [timedOut EXCEPT ![t] = FALSE]
    /\ UNCHANGED <<config, evLock, mapReaders, map, idx, rm, counter, wLock,
                   everSignaled>>

(* line 100: the deadline of condvar.wait_until elapses                   *)
WaitTimeout(t) ==
    /\ role[t] = "wait_until" /\ pc[t] = "blocked"
    /\ pc' = [pc EXCEPT ![t] = "woken"]
    /\ timedOut' = [timedOut EXCEPT ![t] = TRUE]
    /\ UNCHANGED <<config, signaled, evLock, mapReaders, map, calls, idx, rm,
                   counter, wLock, ret, everSignaled, everBlocked>>

(* lines 76-82 / 100-107: the condvar wait retakes the state lock; the    *)
(* assertion is checked, auto-reset clears the flag, the lock is dropped  *)
WaitWake(t) ==
    /\ IsSingle(t) /\ pc[t] = "woken"
    /\ evLock[target[t]] = NoThread
    /\ IF WakeAssert(t, signaled[target[t]])
       THEN /\ signaled' = [signaled EXCEPT
                               ![target[t]] = AfterObserve(target[t], @)]
            /\ calls' = [calls EXCEPT ![t] = @ + 1]
            /\ pc' = [pc EXCEPT ![t] = NextPc(t)]
       ELSE /\ pc' = [pc EXCEPT ![t] = "panicked"]
            /\ UNCHANGED <<signaled, calls>>
    /\ ret' = [ret EXCEPT ![t] = <<>>]
    /\ UNCHANGED <<config, evLock, mapReaders, map, idx, rm, counter, wLock,
                   timedOut, everSignaled, everBlocked>>

(***************************************************************************)
(* wait_for_any_until_impl (lines 159-218) and wait_for_all_until_impl    *)
(* (lines 244-294).  role "any" / "all" selects the function, timed[t] is *)
(* with_timeout.                                                           *)
(***************************************************************************)
(* The initial value of the waiter's counter: lines 164 and 249.          *)
InitCounter(t) == IF role[t] = "any" THEN USIZE_MAX ELSE 0

(* A registration that uses the 0-based index in both modes.              *)
RegistrationZeroBased(t, p) ==
    Entry(t, p - 1, IF role[t] = "any" THEN "Any" ELSE "All")

(* The entry a group wait inserts for the event at position p (1-based):  *)
(* id is the 0-based index for any (line 187), index + 1 for all          *)
(* (line 268).                                                             *)
Registration(t, p) ==
    IF role[t] = "any" THEN Entry(t, p - 1, "Any") ELSE Entry(t, p, "All")

(* A loop that tests the counter only and waits again after a timeout.    *)
MustWaitIgnoresDeadline(t) ==
    IF role[t] = "any"
    THEN counter[t] = USIZE_MAX
    ELSE counter[t] # FromAll(Len(slice[t]))

(* The loop condition of the blocking loop: lines 196, 202, 277, 282.     *)
MustWait(t) ==
    /\ IF role[t] = "any"
       THEN counter[t] = USIZE_MAX
       ELSE counter[t] # FromAll(Len(slice[t]))
    /\ ~(timed[t] /\ timedOut[t])

(* Position after the scan has handled position p.                        *)
ScanPc(t, p) == IF p >= Len(slice[t]) THEN "check" ELSE "scan"

(* An early return that reports the 1-based position.                     *)
EarlyIndexOneBased(t) == idx[t]

(* The index wait_for_any returns early: id of enumerate(), 0-based       *)
(* (lines 173, 180).                                                       *)
EarlyIndex(t) == idx[t] - 1

(* lines 164-172 / 249-256: the descriptor is created and its mutex       *)
(* locked                                                                  *)
GroupStart(t) ==
    /\ IsGroup(t) /\ pc[t] = "start"
    /\ counter' = [counter EXCEPT ![t] = InitCounter(t)]
    /\ wLock' = [wLock EXCEPT ![t] = t]
    /\ timedOut' = [timedOut EXCEPT ![t] = FALSE]
    /\ idx' = [idx EXCEPT ![t] = 1]
    /\ pc' = [pc EXCEPT ![t] = ScanPc(t, 0)]
    /\ UNCHANGED <<config, signaled, evLock, mapReaders, map, calls, rm, ret,
                   everSignaled, everBlocked>>

(* A scan that registers without looking at the flag.                     *)
FlagIgnored(e) == FALSE

(* The flag as the scan reads it under the event's state lock (lines 175  *)
(* and 259).                                                               *)
FlagSeen(e) == signaled[e]

(* A scan that consumes the signal of an auto-reset event it observes.    *)
FlagAfterScanResets(e) == AfterObserve(e, signaled[e])

(* The flag after the scan has looked at it: the scan only reads through  *)
(* its guard (lines 174-175 and 258-259), it never assigns the flag.      *)
FlagAfterScan(e) == signaled[e]

(* lines 174-175 / 258-262: lock the state of the next event and test the *)
(* flag.  Signaled: any goes to the early return holding the lock, all    *)
(* adds index + 1 to its counter and drops the lock.  Unsignaled: the     *)
(* lock is kept for the registration.                                      *)
GroupScan(t) ==
    /\ IsGroup(t) /\ pc[t] = "scan"
    /\ LET e == slice[t][idx[t]] IN
        /\ evLock[e] = NoThread
        /\ signaled' = [signaled EXCEPT ![e] = FlagAfterScan(e)]
        /\ IF ~FlagSeen(e)
           THEN /\ evLock' = [evLock EXCEPT ![e] = t]
                /\ pc' = [pc EXCEPT ![t] = "reg"]
                /\ UNCHANGED <<counter, idx, rm>>
           ELSE IF role[t] = "any"
           THEN /\ evLock' = [evLock EXCEPT ![e] = t]
                /\ pc' = [pc EXCEPT ![t] = "early"]
                /\ rm' = [rm EXCEPT ![t] = 1]
                /\ UNCHANGED <<counter, idx>>
           ELSE /\ counter' = [counter EXCEPT ![t] = @ + idx[t]]
                /\ pc' = [pc EXCEPT ![t] = ScanPc(t, idx[t])]
                /\ idx' = [idx EXCEPT ![t] = @ + 1]
                /\ UNCHANGED <<evLock, rm>>
    /\ UNCHANGED <<config, mapReaders, map, calls, wLock, timedOut, ret,
                   everSignaled, everBlocked>>

(* lines 182-191 / 263-272: take the table's write lock, insert the       *)
(* registration, drop the write lock and the state lock                    *)
GroupRegister(t) ==
    /\ IsGroup(t) /\ pc[t] = "reg"
    /\ LET e == slice[t][idx[t]] IN
        /\ mapReaders[e] = {}
        /\ map' = [map EXCEPT ![e] = MapInsert(@, Registration(t, idx[t]))]
        /\ evLock' = [evLock EXCEPT ![e] = NoThread]
    /\ pc' = [pc EXCEPT ![t] = ScanPc(t, idx[t])]
    /\ idx' = [idx EXCEPT ![t] = @ + 1]
    /\ UNCHANGED <<config, signaled, mapReaders, calls, rm, counter, wLock,
                   timedOut, ret, everSignaled, everBlocked>>

(* lines 176-179: the early return of wait_for_any removes the            *)
(* registrations of the positions before the signaled one, each under the *)
(* table's write lock, still holding the signaled event's state lock and  *)
(* the counter lock                                                        *)
AnyEarlyRemove(t) ==
    /\ role[t] = "any" /\ pc[t] = "early"
    /\ rm[t] < idx[t]
    /\ LET e == slice[t][rm[t]] IN
        /\ mapReaders[e] = {}
        /\ map' = [map EXCEPT ![e] = MapRemove(@, t)]
    /\ rm' = [rm EXCEPT ![t] = @ + 1]
    /\ UNCHANGED <<config, signaled, evLock, mapReaders, calls, pc, idx,
                   counter, wLock, timedOut, ret, everSignaled, everBlocked>>

(* line 180: return Ok(id); the state lock and the counter lock drop      *)
AnyEarlyReturn(t) ==
    /\ role[t] = "any" /\ pc[t] = "early"
    /\ rm[t] >= idx[t]
    /\ ret' = [ret EXCEPT ![t] = <<EarlyIndex(t)>>]
    /\ evLock' = [evLock EXCEPT ![slice[t][idx[t]]] = NoThread]
    /\ wLock' = [wLock EXCEPT ![t] = NoThread]
    /\ calls' = [calls EXCEPT ![t] = @ + 1]
    /\ pc' = [pc EXCEPT ![t] = "done"]
    /\ UNCHANGED <<config, signaled, mapReaders, map, idx, rm, counter,
                   timedOut, everSignaled, everBlocked>>

(* lines 192-208 / 273-287: the loop test under the counter lock.  The    *)
(* condvar wait releases the lock and blocks; leaving the loop reads the  *)
(* counter (any: id = *guard) and drops the lock at the end of the block. *)
GroupCheck(t) ==
    /\ IsGroup(t) /\ pc[t] = "check"
    /\ wLock' = [wLock EXCEPT ![t] = NoThread]
    /\ IF MustWait(t)
       THEN /\ pc' = [pc EXCEPT ![t] = "blocked"]
            /\ everBlocked' = [everBlocked EXCEPT ![t] = TRUE]
            /\ UNCHANGED <<idx, ret>>
       ELSE /\ pc' = [pc EXCEPT ![t] = "dereg"]
            /\ idx' = [idx EXCEPT ![t] = 1]
            /\ ret' = [ret EXCEPT ![t] =
                          IF role[t] = "any" THEN <<counter[t]>> ELSE <<>>]
            /\ UNCHANGED everBlocked
    /\ UNCHANGED <<config, signaled, evLock, mapReaders, map, calls, rm,
                   counter, timedOut, everSignaled>>

(* lines 197 / 278: the deadline of condvar.wait_until elapses            *)
GroupTimeout(t) ==
    /\ IsGroup(t) /\ timed[t] /\ pc[t] = "blocked"
    /\ pc' = [pc EXCEPT ![t] = "woken"]
    /\ timedOut' = [timedOut EXCEPT ![t] = TRUE]
    /\ UNCHANGED <<config, signaled, evLock, mapReaders, map, calls, idx, rm,
                   counter, wLock, ret, everSignaled, everBlocked>>

(* lines 197, 203 / 278, 283: the condvar wait retakes the counter lock   *)
GroupWake(t) ==
    /\ IsGroup(t) /\ pc[t] = "woken"
    /\ wLock[t] = NoThread
    /\ wLock' = [wLock EXCEPT ![t] = t]
    /\ pc' = [pc EXCEPT ![t] = "check"]
    /\ UNCHANGED <<config, signaled, evLock, mapReaders, map, calls, idx, rm,
                   counter, timedOut, ret, everSignaled, everBlocked>>

(* A deregistration loop that stops one event short.                      *)
DeregDoneEarly(t) == idx[t] >= Len(slice[t])

(* The deregistration loop has visited every event of the slice (lines    *)
(* 209 and 289).                                                           *)
DeregDone(t) == idx[t] > Len(slice[t])

(* lines 209-212 / 288-292: remove the registration from the next event   *)
(* of the slice, under the table's write lock                              *)
GroupDeregister(t) ==
    /\ IsGroup(t) /\ pc[t] = "dereg"
    /\ ~DeregDone(t)
    /\ LET e == slice[t][idx[t]] IN
        /\ mapReaders[e] = {}
        /\ map' = [map EXCEPT ![e] = MapRemove(@, t)]
    /\ idx' = [idx EXCEPT ![t] = @ + 1]
    /\ UNCHANGED <<config, signaled, evLock, mapReaders, calls, pc, rm,
                   counter, wLock, timedOut, ret, everSignaled, everBlocked>>

(* lines 213-217 / 293: the result; a timed-out any returns Err           *)
GroupReturn(t) ==
    /\ IsGroup(t) /\ pc[t] = "dereg"
    /\ DeregDone(t)
    /\ ret' = [ret EXCEPT ![t] = IF timedOut[t] THEN <<>> ELSE @]
    /\ calls' = [calls EXCEPT ![t] = @ + 1]
    /\ pc' = [pc EXCEPT ![t] = "done"]
    /\ UNCHANGED <<config, signaled, evLock, mapReaders, map, idx, rm,
                   counter, wLock, timedOut, everSignaled, everBlocked>>

(***************************************************************************)
(* Initial states.  Every scenario starts from freshly constructed events *)
(* (Event::new, lines 64-71: unlocked, empty table) and threads that have *)
(* not yet called anything.                                                *)
(***************************************************************************)
WholeSlice == [i \in 1..NumEvents |-> i]

InitFresh ==
    /\ evLock = [e \in Events |-> NoThread]
    /\ mapReaders = [e \in Events |-> {}]
    /\ map = [e \in Events |-> <<>>]
    /\ calls = [t \in Threads |-> 0]
    /\ pc = [t \in Threads |-> IF role[t] = "idle" THEN "done" ELSE "start"]
    /\ idx = [t \in Threads |-> 1]
    /\ rm = [t \in Threads |-> 1]
    /\ counter = [t \in Threads |-> 0]
    /\ wLock = [t \in Threads |-> NoThread]
    /\ timedOut = [t \in Threads |-> FALSE]
    /\ ret = [t \in Threads |-> <<>>]
    /\ everSignaled = {e \in Events : signaled[e]}
    /\ everBlocked = [t \in Threads |-> FALSE]

NotifyStep(t) ==
    NotifyLock(t) \/ NotifyRead(t) \/ NotifyWalk(t) \/ NotifyReturn(t)

GroupStep(t) ==
    \/ GroupStart(t) \/ GroupScan(t) \/ GroupRegister(t)
    \/ AnyEarlyRemove(t) \/ AnyEarlyReturn(t)
    \/ GroupCheck(t) \/ GroupWake(t)
    \/ GroupDeregister(t) \/ GroupReturn(t)

SingleStep(t) == WaitLock(t) \/ WaitWake(t)

(***************************************************************************)
(* SpecGroup: one group wait (any or all, timed or not) over the whole    *)
(* slice, events in arbitrary initial states, and two threads that call   *)
(* notify on events of the slice, each up to MaxNotify times.             *)
(***************************************************************************)
InitGroup ==
    /\ signaled \in [Events -> BOOLEAN]
    /\ autoReset = [e \in Events |-> FALSE]
    /\ \E r \in {"any", "all"} :
           role = [t \in Threads |->
                      IF t = "g1" THEN r
                      ELSE IF t \in {"n1", "n2"} THEN "notify" ELSE "idle"]
    /\ \E b \in BOOLEAN : timed = [t \in Threads |-> (t = "g1") /\ b]
    /\ target \in [Threads -> Events]
    /\ \A t \in Threads \ {"n1", "n2"} : target[t] = 1
    /\ slice = [t \in Threads |-> WholeSlice]
    /\ quota = [t \in Threads |-> IF t = "g1" THEN 1 ELSE MaxNotify]
    /\ InitFresh

NextGroup ==
    \E t \in Threads :
        \/ NotifyLock(t)
        \/ NotifyRead(t)
        \/ NotifyWalk(t)
        \/ NotifyReturn(t)
        \/ GroupStart(t)
        \/ GroupScan(t)
        \/ GroupRegister(t)
        \/ AnyEarlyRemove(t)
        \/ AnyEarlyReturn(t)
        \/ GroupCheck(t)
        \/ GroupTimeout(t)
        \/ GroupWake(t)
        \/ GroupDeregister(t)
        \/ GroupReturn(t)

SpecGroup == InitGroup /\ [][NextGroup]_vars

(***************************************************************************)
(* Which lock a thread's next step has to acquire, and who holds a lock.  *)
(***************************************************************************)
Lock(kind, e, w) == [kind |-> kind, ev |-> e, th |-> w]

Wants(t) ==
    IF role[t] \in {"notify", "unnotify", "wait", "wait_until"}
       /\ pc[t] = "start"
    THEN Lock("state", target[t], t)
    ELSE IF IsSingle(t) /\ pc[t] = "woken"
    THEN Lock("state", target[t], t)
    ELSE IF role[t] = "notify" /\ pc[t] = "walk"
            /\ idx[t] <= Len(map[target[t]])
    THEN Lock("counter", target[t], map[target[t]][idx[t]].key)
    ELSE IF IsGroup(t) /\ pc[t] = "scan"
    THEN Lock("state", slice[t][idx[t]], t)
    ELSE IF IsGroup(t) /\ pc[t] = "reg"
    THEN Lock("table", slice[t][idx[t]], t)
    ELSE IF IsGroup(t) /\ pc[t] = "early" /\ rm[t] < idx[t]
    THEN Lock("table", slice[t][rm[t]], t)
    ELSE IF IsGroup(t) /\ pc[t] = "dereg" /\ idx[t] <= Len(slice[t])
    THEN Lock("table", slice[t][idx[t]], t)
    ELSE IF IsGroup(t) /\ pc[t] = "woken"
    THEN Lock("counter", 1, t)
    ELSE Lock("nothing", 1, t)

Holders(l) ==
    IF l.kind = "state" THEN {evLock[l.ev]} \ {NoThread}
    ELSE IF l.kind = "table" THEN mapReaders[l.ev]
    ELSE IF l.kind = "counter" THEN {wLock[l.th]} \ {NoThread}
    ELSE {}

(* Thread a cannot take its next step before thread b releases a lock.    *)
BlockedOn(a, b) == a # b /\ b \in Holders(Wants(a))

GroupThreads == {t \in Threads : IsGroup(t)}
NotifyThreads == {t \in Threads : role[t] = "notify"}

(***************************************************************************)
(* C1: a single group wait running against notify calls on events of its  *)
(* slice never reaches a state where the group-wait thread and a          *)
(* notifying thread are each blocked on a lock the other holds.           *)
(***************************************************************************)
C1_NoMutualBlock ==
    \A g \in GroupThreads : \A n \in NotifyThreads :
        ~(BlockedOn(g, n) /\ BlockedOn(n, g))

SliceEvents(t) == {slice[t][i] : i \in 1..Len(slice[t])}

(* The call of thread t has returned.                                     *)
Returned(t) == pc[t] = "done" /\ calls[t] = quota[t]

(***************************************************************************)
(* C3: wait_for_all (or a timed variant that did not time out) has        *)
(* returned only if every event of its slice has been signaled at least   *)
(* once, initially or by a notify.                                         *)
(***************************************************************************)
C3_AllAfterEverySignal ==
    \A g \in GroupThreads :
        (role[g] = "all" /\ Returned(g) /\ ~timedOut[g])
            => SliceEvents(g) \subseteq everSignaled

(***************************************************************************)
(* SpecGroupUn: SpecGroup with one notifying thread and one thread that   *)
(* calls unnotify, both on events of the slice.                            *)
(***************************************************************************)
InitGroupUn ==
    /\ signaled \in [Events -> BOOLEAN]
    /\ autoReset = [e \in Events |-> FALSE]
    /\ \E r \in {"any", "all"} :
           role = [t \in Threads |->
                      IF t = "g1" THEN r
                      ELSE IF t = "n1" THEN "notify"
                      ELSE IF t = "u1" THEN "unnotify" ELSE "idle"]
    /\ \E b \in BOOLEAN : timed = [t \in Threads |-> (t = "g1") /\ b]
    /\ target \in [Threads -> Events]
    /\ \A t \in Threads \ {"n1", "u1"} : target[t] = 1
    /\ slice = [t \in Threads |-> WholeSlice]
    /\ quota = [t \in Threads |-> IF t = "g1" THEN 1 ELSE MaxNotify]
    /\ InitFresh

NextGroupUn ==
    \E t \in Threads :
        \/ NotifyLock(t)
        \/ NotifyRead(t)
        \/ NotifyWalk(t)
        \/ NotifyReturn(t)
        \/ Unnotify(t)
        \/ GroupStart(t)
        \/ GroupScan(t)
        \/ GroupRegister(t)
        \/ AnyEarlyRemove(t)
        \/ AnyEarlyReturn(t)
        \/ GroupCheck(t)
        \/ GroupTimeout(t)
        \/ GroupWake(t)
        \/ GroupDeregister(t)
        \/ GroupReturn(t)

SpecGroupUn == InitGroupUn /\ [][NextGroupUn]_vars

(***************************************************************************)
(* C4: once a group wait has returned, on any exit path, no registration  *)
(* table of its slice holds an entry of its waiter; it being the only     *)
(* group wait, every table of the slice is empty.                          *)
(***************************************************************************)
C4_NoRegistrationAfterReturn ==
    \A g \in GroupThreads :
        Returned(g) =>
            \A e \in SliceEvents(g) :
                /\ g \notin Keys(map[e])
                /\ (GroupThreads = {g} => map[e] = <<>>)

(* a call that registered everywhere, blocked, and returned by timeout    *)
(* after notify and unnotify calls had run                                 *)
C4_Witness ==
    \E g \in GroupThreads :
        /\ Returned(g) /\ everBlocked[g] /\ timedOut[g]
        /\ calls["n1"] > 0 /\ calls["u1"] > 0

(* Positions of the slice of t whose event is signaled.                   *)
SignaledPositions(t) == {i \in 1..Len(slice[t]) : signaled[slice[t][i]]}

Min(S) == CHOOSE x \in S : \A y \in S : x <= y

(* No notify or unnotify call has started.                                *)
NobodyNotified ==
    \A n \in Threads :
        role[n] \in {"notify", "unnotify"} => (pc[n] = "start" /\ calls[n] = 0)

(***************************************************************************)
(* C8: wait_for_any over a slice of which some events are signaled, with  *)
(* no notify or unnotify running, returns the lowest signaled index       *)
(* without blocking, and no table of an earlier position keeps its entry. *)
(***************************************************************************)
C8_LowestSignaledWins ==
    \A g \in GroupThreads :
        (role[g] = "any" /\ Returned(g) /\ NobodyNotified
            /\ SignaledPositions(g) # {})
        => /\ ret[g] = <<Min(SignaledPositions(g)) - 1>>
           /\ ~everBlocked[g]
           /\ ~timedOut[g]
           /\ \A i \in 1..(Min(SignaledPositions(g)) - 1) :
                  g \notin Keys(map[slice[g][i]])

(* the first event is unsignaled and was registered, a later one is       *)
(* signaled and its index is returned                                      *)
C8_Witness ==
    \E g \in GroupThreads :
        /\ role[g] = "any" /\ Returned(g) /\ NobodyNotified
        /\ ~signaled[slice[g][1]]
        /\ SignaledPositions(g) # {}
        /\ ret[g] = <<Min(SignaledPositions(g)) - 1>>

(***************************************************************************)
(* Scheduling: the threads are preemptive OS threads, so a thread whose   *)
(* next step stays possible eventually takes it.  Deadlines are not part  *)
(* of this: a timed wait need not time out.                                *)
(***************************************************************************)
ThreadStep(t) ==
    \/ NotifyStep(t)
    \/ GroupStep(t)
    \/ SingleStep(t)
    \/ Unnotify(t)

Fairness == \A t \in Threads : WF_vars(ThreadStep(t))

(***************************************************************************)
(* SpecAnyOne: wait_for_any over unsignaled manual-reset events, and one  *)
(* thread that calls notify exactly once, on an event chosen freely.      *)
(***************************************************************************)
InitAnyOne ==
    /\ signaled = [e \in Events |-> FALSE]
    /\ autoReset = [e \in Events |-> FALSE]
    /\ role = [t \in Threads |->
                  IF t = "g1" THEN "any"
                  ELSE IF t = "n1" THEN "notify" ELSE "idle"]
    /\ timed = [t \in Threads |-> FALSE]
    /\ target \in [Threads -> Events]
    /\ \A t \in Threads \ {"n1"} : target[t] = 1
    /\ slice = [t \in Threads |-> WholeSlice]
    /\ quota = [t \in Threads |-> 1]
    /\ InitFresh

NextAnyOne ==
    \E t \in Threads :
        \/ NotifyLock(t)
        \/ NotifyRead(t)
        \/ NotifyWalk(t)
        \/ NotifyReturn(t)
        \/ GroupStart(t)
        \/ GroupScan(t)
        \/ GroupRegister(t)
        \/ AnyEarlyRemove(t)
        \/ AnyEarlyReturn(t)
        \/ GroupCheck(t)
        \/ GroupWake(t)
        \/ GroupDeregister(t)
        \/ GroupReturn(t)

SpecAnyOne == InitAnyOne /\ [][NextAnyOne]_vars /\ Fairness

(* 0-based index of event e in the slice of t.                            *)
IndexIn(t, e) == (CHOOSE i \in 1..Len(slice[t]) : slice[t][i] = e) - 1

(***************************************************************************)
(* C2: wait_for_any over unsignaled events of which exactly one, k, is    *)
(* notified exactly once, whenever that happens relative to the call,     *)
(* eventually returns, and what it returns is k.                           *)
(***************************************************************************)
C2_NotifiedIndexReturned ==
    /\ <>(\A g \in GroupThreads : Returned(g))
    /\ [](\A g \in GroupThreads :
             Returned(g) => ret[g] = <<IndexIn(g, target["n1"])>>)

(* the notify came after the waiter had registered and blocked, on an     *)
(* event that is not the first                                             *)
C2_Witness ==
    \E g \in GroupThreads :
        /\ Returned(g) /\ everBlocked[g]
        /\ target["n1"] # slice[g][1]
        /\ ret[g] = <<IndexIn(g, target["n1"])>>

(***************************************************************************)
(* SpecAllOnce: wait_for_all (timed or not) over the whole slice, events  *)
(* in arbitrary initial states, and one notifying thread per event, each  *)
(* calling notify once.                                                    *)
(***************************************************************************)
NotifierOf == <<"n1", "n2", "n3", "n4">>

EventNotifiers == {NotifierOf[e] : e \in Events}

InitAllOnce ==
    /\ signaled \in [Events -> BOOLEAN]
    /\ autoReset = [e \in Events |-> FALSE]
    /\ role = [t \in Threads |->
                  IF t = "g1" THEN "all"
                  ELSE IF t \in EventNotifiers THEN "notify" ELSE "idle"]
    /\ \E b \in BOOLEAN : timed = [t \in Threads |-> (t = "g1") /\ b]
    /\ target = [t \in Threads |->
                    IF t \in EventNotifiers
                    THEN CHOOSE e \in Events : NotifierOf[e] = t
                    ELSE 1]
    /\ slice = [t \in Threads |-> WholeSlice]
    /\ quota = [t \in Threads |-> 1]
    /\ InitFresh

NextAllOnce ==
    \E t \in Threads :
        \/ NotifyLock(t)
        \/ NotifyRead(t)
        \/ NotifyWalk(t)
        \/ NotifyReturn(t)
        \/ GroupStart(t)
        \/ GroupScan(t)
        \/ GroupRegister(t)
        \/ GroupCheck(t)
        \/ GroupTimeout(t)
        \/ GroupWake(t)
        \/ GroupDeregister(t)
        \/ GroupReturn(t)

SpecAllOnce == InitAllOnce /\ [][NextAllOnce]_vars /\ Fairness

(***************************************************************************)
(* C6: wait_for_all over events that are each notified exactly once, in   *)
(* any order and at any point of the scan, eventually returns; a timed    *)
(* variant that returns without timeout has seen its counter reach the    *)
(* target.                                                                 *)
(***************************************************************************)
C6_AllEventuallyReturns ==
    /\ <>(\A g \in GroupThreads : Returned(g))
    /\ [](\A g \in GroupThreads :
             (Returned(g) /\ ~timedOut[g])
                 => counter[g] = FromAll(Len(slice[g])))

(* an untimed call that found nothing signaled, blocked, and returned     *)
(* after the notifies                                                      *)
C6_Witness ==
    \E g \in GroupThreads :
        /\ Returned(g) /\ everBlocked[g] /\ ~timed[g]
        /\ everSignaled = Events
        /\ \A n \in EventNotifiers : calls[n] = 1

(***************************************************************************)
(* SpecTimeout: events that are unsignaled and never notified; one thread *)
(* in Event::wait_until (wait_for computes the deadline and calls it),    *)
(* one in a timed wait_for_any and one in a timed wait_for_all, all       *)
(* running together.  Time passes, so every deadline elapses.             *)
(***************************************************************************)
InitTimeout ==
    /\ signaled = [e \in Events |-> FALSE]
    /\ \E b \in BOOLEAN : autoReset = [e \in Events |-> b]
    /\ role = [t \in Threads |->
                  IF t = "s1" THEN "wait_until"
                  ELSE IF t = "g1" THEN "any"
                  ELSE IF t = "g2" THEN "all" ELSE "idle"]
    /\ timed = [t \in Threads |-> t \in {"g1", "g2"}]
    /\ target \in [Threads -> Events]
    /\ \A t \in Threads \ {"s1"} : target[t] = 1
    /\ slice = [t \in Threads |-> WholeSlice]
    /\ quota = [t \in Threads |-> 1]
    /\ InitFresh

NextTimeout ==
    \E t \in Threads :
        \/ WaitLock(t)
        \/ WaitTimeout(t)
        \/ WaitWake(t)
        \/ GroupStart(t)
        \/ GroupScan(t)
        \/ GroupRegister(t)
        \/ GroupCheck(t)
        \/ GroupTimeout(t)
        \/ GroupWake(t)
        \/ GroupDeregister(t)
        \/ GroupReturn(t)

DeadlinesElapse ==
    \A t \in Threads : WF_vars(WaitTimeout(t) \/ GroupTimeout(t))

SpecTimeout ==
    InitTimeout /\ [][NextTimeout]_vars /\ Fairness /\ DeadlinesElapse

Callers == {t \in Threads : role[t] # "idle"}

(***************************************************************************)
(* C7: with every event unsignaled and no notify at all, wait_until, the  *)
(* timed wait_for_any and the timed wait_for_all each terminate and       *)
(* report the timeout: timed_out is true, the any-variant returns no      *)
(* index, and no call returns success.                                     *)
(***************************************************************************)
C7_TimeoutReported ==
    /\ <>(\A t \in Callers : Returned(t))
    /\ [](\A t \in Callers :
             /\ pc[t] # "panicked"
             /\ Returned(t) => (timedOut[t] /\ ret[t] = <<>>))

(* all three timed calls have blocked and returned                        *)
C7_Witness ==
    \A t \in {"s1", "g1", "g2"} :
        Returned(t) /\ everBlocked[t] /\ timedOut[t]

(***************************************************************************)
(* SpecWait: manual-reset events, initially unsignaled; two threads that  *)
(* call wait() and two that call notify(), each on an event of its own    *)
(* choice, so some waits are notified and some never are.  No unnotify.   *)
(***************************************************************************)
InitWait ==
    /\ signaled = [e \in Events |-> FALSE]
    /\ autoReset = [e \in Events |-> FALSE]
    /\ role = [t \in Threads |->
                  IF t \in {"s1", "s2"} THEN "wait"
                  ELSE IF t \in {"n1", "n2"} THEN "notify" ELSE "idle"]
    /\ timed = [t \in Threads |-> FALSE]
    /\ target \in [Threads -> Events]
    /\ \A t \in Threads \ {"s1", "s2", "n1", "n2"} : target[t] = 1
    /\ slice = [t \in Threads |-> WholeSlice]
    /\ quota = [t \in Threads |-> IF t \in {"s1", "s2"} THEN MaxWaits ELSE 1]
    /\ InitFresh

NextWait ==
    \E t \in Threads :
        \/ WaitLock(t)
        \/ WaitWake(t)
        \/ NotifyLock(t)
        \/ NotifyRead(t)
        \/ NotifyReturn(t)

SpecWait == InitWait /\ [][NextWait]_vars /\ Fairness

(***************************************************************************)
(* C5: on a manual-reset event that nobody unnotifies, once notify has    *)
(* set the flag, before or during a wait(), every wait() on that event    *)
(* eventually returns; no waiter stays blocked after the notify.          *)
(***************************************************************************)
C5_NotifiedWaitReturns ==
    \A t \in Threads :
        (IsSingle(t) /\ signaled[target[t]]) ~> Returned(t)

(* a waiter blocked on the condvar before the notify and returned after   *)
C5_Witness ==
    \E t \in Threads :
        /\ role[t] = "wait" /\ everBlocked[t] /\ Returned(t)
        /\ signaled[target[t]]

(***************************************************************************)
(* SpecAuto: one auto-reset event, initially unsignaled; a single waiter  *)
(* that calls wait() MaxWaits times in a row, and two threads that each   *)
(* call notify() MaxNotify times, all on that event.                       *)
(***************************************************************************)
InitAuto ==
    /\ signaled = [e \in Events |-> FALSE]
    /\ autoReset = [e \in Events |-> TRUE]
    /\ role = [t \in Threads |->
                  IF t = "s1" THEN "wait"
                  ELSE IF t \in {"n1", "n2"} THEN "notify" ELSE "idle"]
    /\ timed = [t \in Threads |-> FALSE]
    /\ \E e \in Events : target = [t \in Threads |-> e]
    /\ slice = [t \in Threads |-> WholeSlice]
    /\ quota = [t \in Threads |-> IF t = "s1" THEN MaxWaits ELSE MaxNotify]
    /\ InitFresh

NextAuto ==
    \E t \in Threads :
        \/ WaitLock(t)
        \/ WaitWake(t)
        \/ NotifyLock(t)
        \/ NotifyRead(t)
        \/ NotifyReturn(t)

SpecAuto == InitAuto /\ [][NextAuto]_vars /\ Fairness

(* How many times notify has set the flag of event e so far.              *)
SignalsSent(e) ==
    LET n1 == IF role["n1"] = "notify" /\ target["n1"] = e
              THEN calls["n1"] + (IF pc["n1"] \in {"read", "walk"} THEN 1 ELSE 0)
              ELSE 0
        n2 == IF role["n2"] = "notify" /\ target["n2"] = e
              THEN calls["n2"] + (IF pc["n2"] \in {"read", "walk"} THEN 1 ELSE 0)
              ELSE 0
    IN  n1 + n2

(***************************************************************************)
(* C9: on an auto-reset event with a single waiter, a wait() returns only *)
(* from a signaled event and leaves it unsignaled; only a notify signals  *)
(* it again, so a wait that follows another without a notify in between   *)
(* blocks until the next notify, and the waiter never completes more      *)
(* waits than notify has set the flag.  A signal that finds the waiter    *)
(* with a call still to make is consumed, and the waiter never panics.    *)
(***************************************************************************)
C9_AutoResetConsumes ==
    /\ [](calls["s1"] <= SignalsSent(target["s1"]))
    /\ [](pc["s1"] # "panicked")
    /\ [][calls'["s1"] # calls["s1"]
             => (signaled[target["s1"]] /\ ~signaled'[target["s1"]])]_vars
    /\ [][(~signaled[target["s1"]] /\ signaled'[target["s1"]])
             => \E n \in Threads :
                    role[n] = "notify" /\ pc[n] = "start" /\ pc'[n] = "read"]_vars
    /\ ((signaled[target["s1"]] /\ calls["s1"] < quota["s1"])
            ~> ~signaled[target["s1"]])

(* the waiter has returned twice, the second time after blocking, and the *)
(* event is unsignaled again                                               *)
C9_Witness ==
    /\ calls["s1"] >= 2 /\ everBlocked["s1"]
    /\ SignalsSent(target["s1"]) = 2
    /\ ~signaled[target["s1"]]

(***************************************************************************)
(* SpecManual: one manual-reset event in an arbitrary initial state; two  *)
(* threads that each call wait() or wait_until() MaxWaits times, one      *)
(* thread that calls notify() and one that calls unnotify(), each         *)
(* MaxNotify times.                                                        *)
(***************************************************************************)
InitManual ==
    /\ signaled \in [Events -> BOOLEAN]
    /\ \A e \in Events : signaled[e] = signaled[1]
    /\ autoReset = [e \in Events |-> FALSE]
    /\ \E r1, r2 \in {"wait", "wait_until"} :
           role = [t \in Threads |->
                      IF t = "s1" THEN r1
                      ELSE IF t = "s2" THEN r2
                      ELSE IF t = "n1" THEN "notify"
                      ELSE IF t = "u1" THEN "unnotify" ELSE "idle"]
    /\ timed = [t \in Threads |-> FALSE]
    /\ \E e \in Events : target = [t \in Threads |-> e]
    /\ slice = [t \in Threads |-> WholeSlice]
    /\ quota = [t \in Threads |-> IF t \in {"s1", "s2"} THEN MaxWaits ELSE MaxNotify]
    /\ InitFresh

NextManual ==
    \E t \in Threads :
        \/ WaitLock(t)
        \/ WaitTimeout(t)
        \/ WaitWake(t)
        \/ NotifyLock(t)
        \/ NotifyRead(t)
        \/ NotifyReturn(t)
        \/ Unnotify(t)

SpecManual == InitManual /\ [][NextManual]_vars

(* Thread t takes the first step of a wait call.                          *)
StartsWait(t) ==
    /\ IsSingle(t) /\ pc[t] = "start"
    /\ (pc'[t] # pc[t] \/ calls'[t] # calls[t])

(* Thread u completes an unnotify call.                                   *)
DoesUnnotify(u) == role[u] = "unnotify" /\ calls'[u] # calls[u]

(***************************************************************************)
(* C10: on a manual-reset event the flag goes from signaled to unsignaled *)
(* only by unnotify; a wait, wait_for or wait_until that starts while the *)
(* event is signaled returns in that step, without blocking, timing out   *)
(* or changing the flag; unnotify leaves every thread where it is, so no  *)
(* blocked thread becomes runnable; a wait that starts while the event is *)
(* unsignaled blocks.                                                      *)
(***************************************************************************)
C10_ManualResetMachine ==
    /\ [][\A e \in Events :
             (signaled[e] /\ ~signaled'[e])
                 => \E u \in Threads : DoesUnnotify(u) /\ target[u] = e]_vars
    /\ [][\A t \in Threads :
             (StartsWait(t) /\ signaled[target[t]])
                 => /\ calls'[t] = calls[t] + 1
                    /\ pc'[t] \in {"start", "done"}
                    /\ ~timedOut'[t]
                    /\ signaled' = signaled]_vars
    /\ [][\A u \in Threads :
             DoesUnnotify(u)
                 => \A t \in Threads \ {u} : pc'[t] = pc[t]]_vars
    /\ [][\A t \in Threads :
             (StartsWait(t) /\ ~signaled[target[t]])
                 => (pc'[t] = "blocked" /\ calls'[t] = calls[t])]_vars

(* after a notify both waiters have returned from a call and the event    *)
(* was still signaled; then unnotify ran and a new wait has blocked       *)
C10_Witness ==
    /\ calls["n1"] >= 1 /\ calls["u1"] >= 1
    /\ calls["s1"] >= 1 /\ calls["s2"] >= 1
    /\ ~signaled[target["s1"]]
    /\ pc["s1"] = "blocked"

(***************************************************************************)
(* SpecTwoAll: two wait_for_all calls over the same unsignaled events,    *)
(* listed in opposite orders, and two threads that each call notify once  *)
(* on an event of their choice.                                            *)
(***************************************************************************)
ReverseSlice == [i \in 1..NumEvents |-> NumEvents + 1 - i]

InitTwoAll ==
    /\ signaled = [e \in Events |-> FALSE]
    /\ autoReset = [e \in Events |-> FALSE]
    /\ role = [t \in Threads |->
                  IF t \in {"g1", "g2"} THEN "all"
                  ELSE IF t \in {"n1", "n2"} THEN "notify" ELSE "idle"]
    /\ timed = [t \in Threads |-> FALSE]
    /\ target \in [Threads -> Events]
    /\ \A t \in Threads \ {"n1", "n2"} : target[t] = 1
    /\ slice = [t \in Threads |-> IF t = "g2" THEN ReverseSlice ELSE WholeSlice]
    /\ quota = [t \in Threads |-> 1]
    /\ InitFresh

NextTwoAll ==
    \E t \in Threads :
        \/ NotifyLock(t)
        \/ NotifyRead(t)
        \/ NotifyWalk(t)
        \/ NotifyReturn(t)
        \/ GroupStart(t)
        \/ GroupScan(t)
        \/ GroupRegister(t)
        \/ GroupCheck(t)
        \/ GroupWake(t)
        \/ GroupDeregister(t)
        \/ GroupReturn(t)

SpecTwoAll == InitTwoAll /\ [][NextTwoAll]_vars

(* Every thread of S is blocked on a lock held by a thread of S: S        *)
(* contains a cycle of threads each waiting for the next.                 *)
LockCycle(S) == S # {} /\ \A a \in S : \E b \in S : BlockedOn(a, b)

(***************************************************************************)
(* C11: with two wait_for_all calls over the same events in different     *)
(* orders and concurrent notify calls, no reachable state contains a      *)
(* cycle of threads each blocked on a lock held by the next.               *)
(***************************************************************************)
C11_NoLockCycle == \A S \in SUBSET Callers : ~LockCycle(S)

(* Events of which thread t holds the state lock or the table lock.       *)
HeldEvents(t) == {e \in Events : evLock[e] = t \/ t \in mapReaders[e]}

(* The event whose state lock or table lock t is about to acquire.        *)
WantedEvents(t) ==
    IF Wants(t).kind \in {"state", "table"} THEN {Wants(t).ev} ELSE {}

(***************************************************************************)
(* C12: a thread inside a group wait holds or acquires locks of at most   *)
(* one event at a time: it never holds a lock of one event while          *)
(* acquiring a lock of another.                                            *)
(***************************************************************************)
C12_OneEventAtATime ==
    \A g \in GroupThreads :
        Cardinality(HeldEvents(g) \cup WantedEvents(g)) <= 1

(* Registration entries a walking notify has still to visit.              *)
EntriesAhead(n) ==
    {map[target[n]][i] : i \in idx[n]..Len(map[target[n]])}

(* The descriptor of group-wait thread w exists: the call has created it  *)
(* and has not returned.                                                   *)
DescriptorAlive(w) == IsGroup(w) /\ pc[w] \notin {"start", "done"}

(***************************************************************************)
(* C13: whenever a notify that walks a registration table is about to     *)
(* lock a waiter's counter and signal its condvar, the group-wait call    *)
(* owning that descriptor has not returned; no call returns while a       *)
(* notify still walks a table that holds its entry.                        *)
(***************************************************************************)
C13_NoDanglingWaiter ==
    \A n \in NotifyThreads :
        pc[n] = "walk" =>
            \A entry \in EntriesAhead(n) : DescriptorAlive(entry.key)

(* a notify has reached the entry of a waiter that is blocked on its      *)
(* condvar                                                                 *)
C13_Witness ==
    \E n \in NotifyThreads :
        /\ pc[n] = "walk"
        /\ \E entry \in EntriesAhead(n) : pc[entry.key] = "blocked"

(***************************************************************************)
(* C14: in every interleaving of wait and wait_until calls with notify    *)
(* and unnotify, a thread that returns from the event's condvar finds the *)
(* assertion of line 77 (wait) or line 102 (wait_until) true: no wait     *)
(* call panics.                                                            *)
(***************************************************************************)
C14_AssertionsHold == \A t \in Threads : pc[t] # "panicked"

(***************************************************************************)
(* SpecAllMany: wait_for_all over unsignaled manual-reset events, and one *)
(* notifying thread per event that calls notify once or MaxNotify times.  *)
(* No unnotify, no deadline.                                               *)
(***************************************************************************)
InitAllMany ==
    /\ signaled = [e \in Events |-> FALSE]
    /\ autoReset = [e \in Events |-> FALSE]
    /\ role = [t \in Threads |->
                  IF t = "g1" THEN "all"
                  ELSE IF t \in EventNotifiers THEN "notify" ELSE "idle"]
    /\ timed = [t \in Threads |-> FALSE]
    /\ target = [t \in Threads |->
                    IF t \in EventNotifiers
                    THEN CHOOSE e \in Events : NotifierOf[e] = t
                    ELSE 1]
    /\ slice = [t \in Threads |-> WholeSlice]
    /\ quota \in [Threads -> {1, MaxNotify}]
    /\ \A t \in Threads \ EventNotifiers : quota[t] = 1
    /\ InitFresh

NextAllMany ==
    \E t \in Threads :
        \/ NotifyLock(t)
        \/ NotifyRead(t)
        \/ NotifyWalk(t)
        \/ NotifyReturn(t)
        \/ GroupStart(t)
        \/ GroupScan(t)
        \/ GroupRegister(t)
        \/ GroupCheck(t)
        \/ GroupWake(t)
        \/ GroupDeregister(t)
        \/ GroupReturn(t)

SpecAllMany == InitAllMany /\ [][NextAllMany]_vars /\ Fairness

(***************************************************************************)
(* C15: once every event of the slice has been notified at least once,    *)
(* wait_for_all returns, however often some events were notified: when    *)
(* all notify calls are over, the call is not left blocked on its         *)
(* condvar, where nothing could wake it any more.                         *)
(***************************************************************************)
C15_ReturnsOnceAllSignaled ==
    \A g \in GroupThreads :
        (everSignaled = Events /\ \A n \in NotifyThreads : Returned(n))
            => pc[g] # "blocked"

(***************************************************************************)
(* SpecAutoTimed: one auto-reset event, initially unsignaled; a waiter    *)
(* that calls wait_until() MaxWaits times in a row, a second waiter that  *)
(* calls wait() once, and a thread that calls notify() MaxNotify times,   *)
(* all on that event.                                                      *)
(***************************************************************************)
InitAutoTimed ==
    /\ signaled = [e \in Events |-> FALSE]
    /\ autoReset = [e \in Events |-> TRUE]
    /\ role = [t \in Threads |->
                  IF t = "s1" THEN "wait_until"
                  ELSE IF t = "s2" THEN "wait"
                  ELSE IF t = "n1" THEN "notify" ELSE "idle"]
    /\ timed = [t \in Threads |-> FALSE]
    /\ \E e \in Events : target = [t \in Threads |-> e]
    /\ slice = [t \in Threads |-> WholeSlice]
    /\ quota = [t \in Threads |->
                   IF t = "s1" THEN MaxWaits
                   ELSE IF t = "n1" THEN MaxNotify ELSE 1]
    /\ InitFresh

NextAutoTimed ==
    \E t \in Threads :
        \/ WaitLock(t)
        \/ WaitTimeout(t)
        \/ WaitWake(t)
        \/ NotifyLock(t)
        \/ NotifyRead(t)
        \/ NotifyReturn(t)

SpecAutoTimed == InitAutoTimed /\ [][NextAutoTimed]_vars

(***************************************************************************)
(* C18: a wait_until() on an auto-reset event that returns timed_out =    *)
(* true has not changed the event's signaled flag: the step in which the  *)
(* timed-out call returns leaves the flag as it found it, so a flag set   *)
(* by a notify() between the timeout and the return is still set          *)
(* afterwards.                                                             *)
(***************************************************************************)
C18_TimeoutKeepsSignal ==
    [][\A t \in Threads :
          (role[t] = "wait_until" /\ pc[t] = "woken" /\ timedOut[t]
              /\ calls'[t] # calls[t])
          => signaled'[target[t]] = signaled[target[t]]]_vars

(***************************************************************************)
(* The registration bracket.                                               *)
(***************************************************************************)
(* Event e holds a registration entry of waiter w.                        *)
Registered(e, w) == w \in Keys(map[e])

(* Every entry of every table belongs to a group wait that has started    *)
(* and not yet returned.                                                   *)
EntriesOwned ==
    \A e \in Events : \A w \in Keys(map[e]) : DescriptorAlive(w)

(***************************************************************************)
(* C16 as stated: (a) an entry for waiter W exists only while the group   *)
(* wait owning W has started and not returned, and (b) a group wait, any  *)
(* or all, blocked on its private condvar holds an entry in every event   *)
(* of its slice.                                                           *)
(***************************************************************************)
C16_RegistrationBracket ==
    /\ EntriesOwned
    /\ \A g \in GroupThreads :
           pc[g] = "blocked" => \A e \in SliceEvents(g) : Registered(e, g)

(***************************************************************************)
(* C16 amended: (a) as stated; (b) a blocked wait_for_any holds an entry  *)
(* in every event of its slice; a blocked wait_for_all holds an entry in  *)
(* every event of its slice that has never been signaled, and an event    *)
(* without its entry is one the scan found signaled and counted.          *)
(***************************************************************************)
C16_BracketUnsignaled ==
    /\ EntriesOwned
    /\ \A g \in GroupThreads :
           pc[g] = "blocked" =>
               \A e \in SliceEvents(g) :
                   \/ Registered(e, g)
                   \/ role[g] = "all" /\ e \in everSignaled

(* a blocked wait_for_all with one event registered and one skipped, and  *)
(* a blocked wait_for_any (in another behaviour) registered everywhere    *)
C16_Witness ==
    \E g \in GroupThreads :
        /\ pc[g] = "blocked"
        /\ role[g] = "all"
        /\ \E e \in SliceEvents(g) : Registered(e, g)
        /\ \E e \in SliceEvents(g) : ~Registered(e, g)

(***************************************************************************)
(* SpecShared: one manual-reset event E among unsignaled events; two      *)
(* independent wait_for_any calls, one over the slice in order and one    *)
(* over it reversed, so that E has a different slot id in each; one       *)
(* thread in E.wait(); one thread that calls E.notify() once.             *)
(***************************************************************************)
InitShared ==
    /\ signaled = [e \in Events |-> FALSE]
    /\ autoReset = [e \in Events |-> FALSE]
    /\ role = [t \in Threads |->
                  IF t \in {"g1", "g2"} THEN "any"
                  ELSE IF t = "s1" THEN "wait"
                  ELSE IF t = "n1" THEN "notify" ELSE "idle"]
    /\ timed = [t \in Threads |-> FALSE]
    /\ \E e \in Events : target = [t \in Threads |-> e]
    /\ slice = [t \in Threads |-> IF t = "g2" THEN ReverseSlice ELSE WholeSlice]
    /\ quota = [t \in Threads |-> 1]
    /\ InitFresh

NextShared ==
    \E t \in Threads :
        \/ NotifyLock(t)
        \/ NotifyRead(t)
        \/ NotifyWalk(t)
        \/ NotifyReturn(t)
        \/ WaitLock(t)
        \/ WaitWake(t)
        \/ GroupStart(t)
        \/ GroupScan(t)
        \/ GroupRegister(t)
        \/ AnyEarlyRemove(t)
        \/ AnyEarlyReturn(t)
        \/ GroupCheck(t)
        \/ GroupWake(t)
        \/ GroupDeregister(t)
        \/ GroupReturn(t)

SpecShared == InitShared /\ [][NextShared]_vars /\ Fairness

(***************************************************************************)
(* C17: one notify of E serves every waiter registered on E.  Each        *)
(* iteration of notify's walk stores the registered slot id, which is the *)
(* waiter's own index of E, into that waiter's counter and leaves the     *)
(* waiter runnable; every wait_for_any call eventually returns its own    *)
(* index of E, and the thread in E.wait() eventually returns too.         *)
(***************************************************************************)
C17_OneNotifyServesAll ==
    /\ [][\A n \in NotifyThreads :
             (pc[n] = "walk" /\ idx'[n] = idx[n] + 1) =>
                 LET w == map[target[n]][idx[n]].key IN
                     /\ counter'[w] = IndexIn(w, target[n])
                     /\ pc'[w] # "blocked"]_vars
    /\ <>[](\A g \in GroupThreads :
                Returned(g) /\ ret[g] = <<IndexIn(g, target[g])>>)
    /\ <>[](\A t \in Callers : Returned(t))

(* both group waits and the local waiter were blocked when notify ran,    *)
(* and all have returned, the group waits with different indices          *)
C17_Witness ==
    /\ \A t \in {"g1", "g2", "s1"} : everBlocked[t] /\ Returned(t)
    /\ ret["g1"] = <<IndexIn("g1", target["n1"])>>
    /\ ret["g2"] = <<IndexIn("g2", target["n1"])>>
    /\ ret["g1"] # ret["g2"]

(***************************************************************************)
(* SpecGroupAuto: auto-reset events in arbitrary initial states; one      *)
(* group wait (any or all, timed or not) over the whole slice, one thread *)
(* that calls notify up to MaxNotify times on an event of the slice, and  *)
(* one thread that calls wait() once on an event of the slice and so      *)
(* consumes its signal.                                                    *)
(***************************************************************************)
InitGroupAuto ==
    /\ signaled \in [Events -> BOOLEAN]
    /\ autoReset = [e \in Events |-> TRUE]
    /\ \E r \in {"any", "all"} :
           role = [t \in Threads |->
                      IF t = "g1" THEN r
                      ELSE IF t = "n1" THEN "notify"
                      ELSE IF t = "s1" THEN "wait" ELSE "idle"]
    /\ \E b \in BOOLEAN : timed = [t \in Threads |-> (t = "g1") /\ b]
    /\ target \in [Threads -> Events]
    /\ \A t \in Threads \ {"n1", "s1"} : target[t] = 1
    /\ slice = [t \in Threads |-> WholeSlice]
    /\ quota = [t \in Threads |-> IF t = "n1" THEN MaxNotify ELSE 1]
    /\ InitFresh

NextGroupAuto ==
    \E t \in Threads :
        \/ NotifyLock(t)
        \/ NotifyRead(t)
        \/ NotifyWalk(t)
        \/ NotifyReturn(t)
        \/ WaitLock(t)
        \/ WaitWake(t)
        \/ GroupStart(t)
        \/ GroupScan(t)
        \/ GroupRegister(t)
        \/ AnyEarlyRemove(t)
        \/ AnyEarlyReturn(t)
        \/ GroupCheck(t)
        \/ GroupTimeout(t)
        \/ GroupWake(t)
        \/ GroupDeregister(t)
        \/ GroupReturn(t)

SpecGroupAuto == InitGroupAuto /\ [][NextGroupAuto]_vars

(* The group wait of thread g moves: its position, its result or its      *)
(* number of completed calls changes.                                      *)
GroupMoves(g) ==
    <<pc[g], idx[g], rm[g], ret[g], calls[g], timedOut[g]>>' #
        <<pc[g], idx[g], rm[g], ret[g], calls[g], timedOut[g]>>

(* Thread t has completed a wait() on event e, which consumed its signal. *)
Consumed(e) ==
    \E t \in Threads : role[t] = "wait" /\ target[t] = e /\ calls[t] > 0

(***************************************************************************)
(* C19: no step of a group wait (any or all, timed or not, on the early   *)
(* return, the normal return or the timeout) changes the signaled flag of *)
(* any event; and the auto-reset event whose index a wait_for_any has     *)
(* returned is still signaled afterwards unless a wait() on that event    *)
(* has consumed the signal.                                                *)
(***************************************************************************)
C19_GroupWaitReadOnly ==
    /\ [][(\E g \in GroupThreads : GroupMoves(g)) => signaled' = signaled]_vars
    /\ [](\A g \in GroupThreads :
             (role[g] = "any" /\ Returned(g) /\ ret[g] # <<>>) =>
                 LET e == slice[g][ret[g][1] + 1] IN
                     signaled[e] \/ Consumed(e))

(* wait_for_any has returned the index of an auto-reset event after       *)
(* blocking, the event is still signaled, and the thread that calls       *)
(* wait() on it has not run yet                                            *)
C19_Witness ==
    \E g \in GroupThreads :
        /\ role[g] = "any" /\ Returned(g) /\ ret[g] # <<>> /\ everBlocked[g]
        /\ LET e == slice[g][ret[g][1] + 1] IN
               /\ autoReset[e] /\ signaled[e]
               /\ target["s1"] = e /\ pc["s1"] = "start"

====
